---------------------------- MODULE Spec2Model ----------------------------
(***************************************************************************)
(* A model of labware_domain_models: the LabwareDefinition object, its     *)
(* addressing operations (well name, row/column, well index), its          *)
(* position validation, its well-coordinate computation and its rotation   *)
(* into a portrait definition.                                             *)
(*                                                                         *)
(* defn holds the attributes of the definition the calls are made on, call *)
(* the call in progress, ret its outcome, and portrait the attributes of   *)
(* the instance that create_portrait_definition constructed (None when     *)
(* there is none).                                                         *)
(*                                                                         *)
(* Python values are tagged records ([type |-> ..., val |-> ...]) so that  *)
(* None, int, float and str values of one attribute can be told apart.     *)
(* Strings that the program builds or parses (well names, row labels) are  *)
(* sequences of character codes: "A1" is <<65, 49>>.  Lengths are          *)
(* integers, in tenths of a millimetre (the fixture's 13.4 mm is 134).     *)
(***************************************************************************)
EXTENDS Integers, Sequences, FiniteSets, TLC

VARIABLES defn, call, ret, portrait

vars == <<defn, call, ret, portrait>>

---------------------------------------------------------------------------
(* Python values *)

None == [type |-> "NoneType"]

PyInt(n) == [type |-> "int", val |-> n]

PyFloat(s) == [type |-> "float", val |-> s]

PyStr(s) == [type |-> "str", val |-> s]

PyTuple(t) == [type |-> "tuple", val |-> t]

IsNone(v) == v.type = "NoneType"

(* The outcome of a call: a returned value or a raised exception. *)
Return(v) == [kind |-> "return", value |-> v]

Raise(e) == [kind |-> "raise", exc |-> e]

RaiseFor(e, field) == [kind |-> "raise", exc |-> e, field |-> field]

Raised(o, e) == o.kind = "raise" /\ o.exc = e

Returned(o) == o.kind = "return"

---------------------------------------------------------------------------
(* Character codes and decimal strings *)

(* ord("A"), the offset of the row letter *)
OrdA == 65

Chr(n) == <<n>>

(* "0".."9" are the codes 48..57, "-" is 45 *)
IsDigit(ch) == ch \in 48..57

IsUpper(ch) == ch \in 65..90

RECURSIVE NatToDigits(_)
NatToDigits(n) ==
    IF n < 10 THEN <<48 + n>>
    ELSE NatToDigits(n \div 10) \o <<48 + (n % 10)>>

(* "%s" % n for an integer n *)
FormatInt(n) == IF n < 0 THEN <<45>> \o NatToDigits(0 - n) ELSE NatToDigits(n)

(* str.zfill(width): zeros go after a leading sign *)
RECURSIVE Zeros(_)
Zeros(k) == IF k <= 0 THEN <<>> ELSE <<48>> \o Zeros(k - 1)

ZFill(s, width) ==
    IF Len(s) >= width THEN s
    ELSE IF Len(s) > 0 /\ s[1] = 45
         THEN <<45>> \o Zeros(width - Len(s)) \o Tail(s)
         ELSE Zeros(width - Len(s)) \o s

RECURSIVE DigitsToNat(_)
DigitsToNat(s) ==
    IF Len(s) = 0 THEN 0
    ELSE 10 * DigitsToNat(SubSeq(s, 1, Len(s) - 1)) + (s[Len(s)] - 48)

(* int(s) for a string of letters and digits: a decimal string is parsed,   *)
(* leading zeros allowed; anything else raises ValueError.                  *)
ParseInt(s) ==
    IF Len(s) > 0 /\ \A k \in 1..Len(s) : IsDigit(s[k])
    THEN Return(DigitsToNat(s))
    ELSE Raise("ValueError")

---------------------------------------------------------------------------
(* Row-Label Codec: row_index0_to_letters and row_letters_to_index0.  The  *)
(* package exports both and the tests call them; they are modelled from    *)
(* the specification (bijective base-26, most significant letter first;   *)
(* a label with an unsupported character is rejected, with an error the    *)
(* specification does not name).                                           *)

RECURSIVE Bijective26(_)
Bijective26(n) ==
    IF n <= 0 THEN <<>>
    ELSE Bijective26((n - 1) \div 26) \o Chr(OrdA + ((n - 1) % 26))

(* a codec that never leaves the single letter: chr(65 + row) *)
row_index0_to_letters_one_char(row) == Chr(OrdA + row)

(* a codec with a zero digit: plain base 26, so that 26 is "BA" *)
RECURSIVE Plain26(_)
Plain26(n) ==
    IF n < 26 THEN Chr(OrdA + n)
    ELSE Plain26(n \div 26) \o Chr(OrdA + (n % 26))

row_index0_to_letters_plain(row) == Plain26(row)

row_index0_to_letters(row) ==
    IF row < 26 THEN Chr(OrdA + row) ELSE Bijective26(row + 1)

RECURSIVE LettersValue(_)
LettersValue(label) ==
    IF Len(label) = 0 THEN 0
    ELSE 26 * LettersValue(SubSeq(label, 1, Len(label) - 1))
         + (label[Len(label)] - OrdA + 1)

row_letters_to_index0(label) ==
    IF Len(label) > 0 /\ \A k \in 1..Len(label) : IsUpper(label[k])
    THEN Return(LettersValue(label) - 1)
    ELSE Raise("UnsupportedRowLabel")

---------------------------------------------------------------------------
(* get_row_and_column_from_well_name: the first character is the row, the  *)
(* rest is the 1-based column.                                             *)

(* int(well_name[1]): the column read from one character only *)
get_row_and_column_from_well_name_second_char(well_name) ==
    IF Len(well_name) < 2 THEN Raise("IndexError")
    ELSE LET row_char == well_name[1]
             parsed == ParseInt(<<well_name[2]>>)
         IN  IF parsed.kind = "raise" THEN parsed
             ELSE LET column == parsed.value - 1
                      row == row_char - OrdA
                  IN  Return(<<row, column>>)

get_row_and_column_from_well_name(well_name) ==
    IF Len(well_name) = 0 THEN Raise("IndexError")
    ELSE LET row_char == well_name[1]
             parsed == ParseInt(Tail(well_name))
         IN  IF parsed.kind = "raise" THEN parsed
             ELSE LET column == parsed.value - 1
                      row == row_char - OrdA
                  IN  Return(<<row, column>>)

---------------------------------------------------------------------------
(* LabwareDefinition *)

MinRowCount == 1

MaxRowCount == 32

MinColumnCount == 1

MaxColumnCount == 48

(* column_count above which pad_zeros pads the column *)
PadColumnCountThreshold == 10

PadWidth == 2

LabwareDefinition(uuid, name, row_count, column_count, center_of_a1, plate_height, row_spacing, column_spacing, distance_to_liquid) ==
    [uuid |-> uuid,
     name |-> name,
     row_count |-> row_count,
     column_count |-> column_count,
     center_of_a1 |-> center_of_a1,
     plate_height |-> plate_height,
     row_center_to_center_spacing |-> row_spacing,
     column_center_to_center_spacing |-> column_spacing,
     distance_to_liquid |-> distance_to_liquid]

(* What a method leaves behind: the object after the call and the outcome. *)
Effect(self, outcome) == [self |-> self, outcome |-> outcome]

(* validate_int of immutable_data_validation, for the values the tests     *)
(* pin: None, a string that is no number, a float that is no integer, an   *)
(* integer below the minimum, above the maximum, or in range.              *)
validate_int(value, extra_error_msg, minimum, maximum) ==
    IF value.type = "NoneType"
    THEN RaiseFor("ValidationCollectionEmptyValueError", extra_error_msg)
    ELSE IF value.type = "str"
    THEN RaiseFor("ValidationCollectionCannotCoerceError", extra_error_msg)
    ELSE IF value.type = "float"
    THEN RaiseFor("ValidationCollectionNotAnIntegerError", extra_error_msg)
    ELSE IF value.val < minimum
    THEN RaiseFor("ValidationCollectionMinimumValueError", extra_error_msg)
    ELSE IF value.val > maximum
    THEN RaiseFor("ValidationCollectionMaximumValueError", extra_error_msg)
    ELSE Return(value)

(* autopopulate of the domain model, as the tests pin it: a definition    *)
(* without uuid is given one.                                              *)
autopopulate(self, new_uuid) ==
    Effect([self EXCEPT !.uuid = IF IsNone(@) THEN new_uuid ELSE @], Return(None))

(* column_count validated before row_count *)
validate_row_and_column_counts_columns_first(self) ==
    LET columns == validate_int(self.column_count, "column_count",
                                MinColumnCount, MaxColumnCount)
    IN  IF columns.kind = "raise" THEN Effect(self, columns)
        ELSE LET self1 == [self EXCEPT !.column_count = columns.value]
                 rows == validate_int(self1.row_count, "row_count",
                                      MinRowCount, MaxRowCount)
             IN  IF rows.kind = "raise" THEN Effect(self1, rows)
                 ELSE Effect([self1 EXCEPT !.row_count = rows.value], Return(None))

(* the maxima of the two counts exchanged *)
validate_row_and_column_counts_maxima_swapped(self) ==
    LET rows == validate_int(self.row_count, "row_count", MinRowCount, MaxColumnCount)
    IN  IF rows.kind = "raise" THEN Effect(self, rows)
        ELSE LET self1 == [self EXCEPT !.row_count = rows.value]
                 columns == validate_int(self1.column_count, "column_count",
                                         MinColumnCount, MaxRowCount)
             IN  IF columns.kind = "raise" THEN Effect(self1, columns)
                 ELSE Effect([self1 EXCEPT !.column_count = columns.value],
                             Return(None))

validate_row_and_column_counts(self) ==
    LET rows == validate_int(self.row_count, "row_count", MinRowCount, MaxRowCount)
    IN  IF rows.kind = "raise" THEN Effect(self, rows)
        ELSE LET self1 == [self EXCEPT !.row_count = rows.value]
                 columns == validate_int(self1.column_count, "column_count",
                                         MinColumnCount, MaxColumnCount)
             IN  IF columns.kind = "raise" THEN Effect(self1, columns)
                 ELSE Effect([self1 EXCEPT !.column_count = columns.value],
                             Return(None))

(* the row and the column stored in each other's attribute *)
PositionInvalidForLabwareDefinitionError_swapped(checked_row, checked_column, labware_definition) ==
    [kind |-> "raise",
     exc |-> "PositionInvalidForLabwareDefinitionError",
     checked_row |-> checked_column,
     checked_column |-> checked_row,
     labware_definition |-> labware_definition]

(* PositionInvalidForLabwareDefinitionError(checked_row, checked_column,   *)
(* labware_definition), raised: the three arguments are kept as attributes *)
PositionInvalidForLabwareDefinitionError(checked_row, checked_column, labware_definition) ==
    [kind |-> "raise",
     exc |-> "PositionInvalidForLabwareDefinitionError",
     checked_row |-> checked_row,
     checked_column |-> checked_column,
     labware_definition |-> labware_definition]

(* the bounds tested with > in place of >= *)
PositionIsInvalidOffByOne(test_row, test_column, row_count, column_count) ==
    \/ test_column > column_count
    \/ test_row > row_count

(* The two tests of validate_position that set raise_error *)
PositionIsInvalid(test_row, test_column, row_count, column_count) ==
    \/ test_column >= column_count
    \/ test_row >= row_count

validate_position(self, test_row, test_column) ==
    LET v == validate_row_and_column_counts(self)
    IN  IF v.outcome.kind = "raise" THEN v
        ELSE IF IsNone(v.self.column_count) \/ IsNone(v.self.row_count)
        THEN Effect(v.self, Raise("NotImplementedError"))
        ELSE IF PositionIsInvalid(test_row, test_column,
                                  v.self.row_count.val, v.self.column_count.val)
        THEN Effect(v.self,
                    PositionInvalidForLabwareDefinitionError(test_row, test_column,
                                                             v.self))
        ELSE Effect(v.self, Return(None))

(* the padding starting at 10 columns, one column early *)
_get_formatted_column_string_from_threshold(self, column, pad_zeros) ==
    LET column_str == FormatInt(column + 1)
    IN  IF ~pad_zeros THEN Effect(self, Return(column_str))
        ELSE LET v == validate_row_and_column_counts(self)
             IN  IF v.outcome.kind = "raise" THEN v
                 ELSE IF IsNone(v.self.column_count)
                 THEN Effect(v.self, Raise("NotImplementedError"))
                 ELSE IF v.self.column_count.val >= PadColumnCountThreshold
                 THEN Effect(v.self, Return(ZFill(column_str, PadWidth)))
                 ELSE Effect(v.self, Return(column_str))

_get_formatted_column_string(self, column, pad_zeros) ==
    LET column_str == FormatInt(column + 1)
    IN  IF ~pad_zeros THEN Effect(self, Return(column_str))
        ELSE LET v == validate_row_and_column_counts(self)
             IN  IF v.outcome.kind = "raise" THEN v
                 ELSE IF IsNone(v.self.column_count)
                 THEN Effect(v.self, Raise("NotImplementedError"))
                 ELSE IF v.self.column_count.val > PadColumnCountThreshold
                 THEN Effect(v.self, Return(ZFill(column_str, PadWidth)))
                 ELSE Effect(v.self, Return(column_str))

(* chr(65 + row): one character, whatever the row; chr of a negative code  *)
(* raises ValueError.                                                      *)
RowChar(row) == IF OrdA + row < 0 THEN Raise("ValueError") ELSE Return(Chr(OrdA + row))

get_well_name_from_row_and_column(self, row, column, pad_zeros) ==
    LET row_char == RowChar(row)
    IN  IF row_char.kind = "raise" THEN Effect(self, row_char)
        ELSE LET c == _get_formatted_column_string(self, column, pad_zeros)
             IN  IF c.outcome.kind = "raise" THEN c
                 ELSE Effect(c.self, Return(row_char.value \o c.outcome.value))

(* the pair returned in the other order *)
RowAndColumnOfIndexSwapped(well_idx, row_count) ==
    <<well_idx \div row_count, well_idx % row_count>>

(* math.ceil in place of math.floor *)
RowAndColumnOfIndexCeil(well_idx, row_count) ==
    <<well_idx % row_count, (well_idx + row_count - 1) \div row_count>>

(* row_idx = well_idx % row_count, col_idx = math.floor(well_idx /        *)
(* row_count).  Python's % and floor round towards minus infinity, as %   *)
(* and \div do here; the float quotient is exact for the indices of a     *)
(* plate (below 2^53).                                                     *)
RowAndColumnOfIndex(well_idx, row_count) ==
    <<well_idx % row_count, well_idx \div row_count>>

(* validate_internals called in place of validate_row_and_column_counts:  *)
(* a missing uuid is populated on the way                                  *)
get_row_and_column_from_well_index_autopopulating(self, well_idx) ==
    LET populated == [self EXCEPT !.uuid = IF IsNone(@) THEN PyStr("uuid4") ELSE @]
        v == validate_row_and_column_counts(populated)
    IN  IF v.outcome.kind = "raise" THEN v
        ELSE IF IsNone(v.self.column_count) \/ IsNone(v.self.row_count)
        THEN Effect(v.self, Raise("NotImplementedError"))
        ELSE Effect(v.self, Return(RowAndColumnOfIndex(well_idx, v.self.row_count.val)))

get_row_and_column_from_well_index(self, well_idx) ==
    LET v == validate_row_and_column_counts(self)
    IN  IF v.outcome.kind = "raise" THEN v
        ELSE IF IsNone(v.self.column_count) \/ IsNone(v.self.row_count)
        THEN Effect(v.self, Raise("NotImplementedError"))
        ELSE Effect(v.self, Return(RowAndColumnOfIndex(well_idx, v.self.row_count.val)))

get_well_name_from_well_index(self, well_idx, pad_zeros) ==
    LET rc == get_row_and_column_from_well_index(self, well_idx)
    IN  IF rc.outcome.kind = "raise" THEN rc
        ELSE get_well_name_from_row_and_column(rc.self, rc.outcome.value[1],
                                               rc.outcome.value[2], pad_zeros)

(* get_well_index_from_row_and_column: called by the tests, modelled from  *)
(* the specification: the counts are validated, then the column-major      *)
(* index column * row_count + row is returned.                             *)
get_well_index_from_row_and_column(self, row, column) ==
    LET v == validate_row_and_column_counts(self)
    IN  IF v.outcome.kind = "raise" THEN v
        ELSE Effect(v.self, Return(column * v.self.row_count.val + row))

(* get_well_index_from_well_name: called by the tests, modelled from the   *)
(* specification: the name is parsed into row and column by                *)
(* get_row_and_column_from_well_name, then the well index is computed.     *)
get_well_index_from_well_name(self, well_name) ==
    LET rc == get_row_and_column_from_well_name(well_name)
    IN  IF rc.kind = "raise" THEN Effect(self, rc)
        ELSE get_well_index_from_row_and_column(self, rc.value[1], rc.value[2])

(* the spacing asked for on row 0 too *)
RowOffsetAppliesFromZero(row_idx) == row_idx >= 0

(* "if row_idx > 0:" and "if col_idx > 0:": when a spacing is needed *)
RowOffsetApplies(row_idx) == row_idx > 0

ColumnOffsetApplies(col_idx) == col_idx > 0

(* the spacings looked at before center_of_a1 *)
get_xy_coordinates_of_well_spacing_first(self, row_idx, col_idx, x_offset, y_offset) ==
    IF RowOffsetApplies(row_idx) /\ IsNone(self.row_center_to_center_spacing)
    THEN Raise("WellCoordinatesRequireRowOffsetError")
    ELSE IF ColumnOffsetApplies(col_idx) /\ IsNone(self.column_center_to_center_spacing)
    THEN Raise("WellCoordinatesRequireColumnOffsetError")
    ELSE IF IsNone(self.center_of_a1)
    THEN Raise("WellCoordinatesRequireA1CenterError")
    ELSE LET x0 == self.center_of_a1.val[1]
             y0 == self.center_of_a1.val[2]
             y1 == IF RowOffsetApplies(row_idx)
                   THEN y0 + self.row_center_to_center_spacing.val * row_idx
                   ELSE y0
             x1 == IF ColumnOffsetApplies(col_idx)
                   THEN x0 + self.column_center_to_center_spacing.val * col_idx
                   ELSE x0
         IN  Return([x |-> x1 + x_offset, y |-> y1 + y_offset])

(* y falling, not growing, down the rows *)
get_xy_coordinates_of_well_y_up(self, row_idx, col_idx, x_offset, y_offset) ==
    IF IsNone(self.center_of_a1)
    THEN Raise("WellCoordinatesRequireA1CenterError")
    ELSE IF RowOffsetApplies(row_idx) /\ IsNone(self.row_center_to_center_spacing)
    THEN Raise("WellCoordinatesRequireRowOffsetError")
    ELSE IF ColumnOffsetApplies(col_idx) /\ IsNone(self.column_center_to_center_spacing)
    THEN Raise("WellCoordinatesRequireColumnOffsetError")
    ELSE LET x0 == self.center_of_a1.val[1]
             y0 == self.center_of_a1.val[2]
             y1 == IF RowOffsetApplies(row_idx)
                   THEN y0 - self.row_center_to_center_spacing.val * row_idx
                   ELSE y0
             x1 == IF ColumnOffsetApplies(col_idx)
                   THEN x0 + self.column_center_to_center_spacing.val * col_idx
                   ELSE x0
         IN  Return([x |-> x1 + x_offset, y |-> y1 + y_offset])

(* the column spacing looked at before the row spacing *)
get_xy_coordinates_of_well_column_first(self, row_idx, col_idx, x_offset, y_offset) ==
    IF IsNone(self.center_of_a1)
    THEN Raise("WellCoordinatesRequireA1CenterError")
    ELSE IF ColumnOffsetApplies(col_idx) /\ IsNone(self.column_center_to_center_spacing)
    THEN Raise("WellCoordinatesRequireColumnOffsetError")
    ELSE IF RowOffsetApplies(row_idx) /\ IsNone(self.row_center_to_center_spacing)
    THEN Raise("WellCoordinatesRequireRowOffsetError")
    ELSE LET x0 == self.center_of_a1.val[1]
             y0 == self.center_of_a1.val[2]
             y1 == IF RowOffsetApplies(row_idx)
                   THEN y0 + self.row_center_to_center_spacing.val * row_idx
                   ELSE y0
             x1 == IF ColumnOffsetApplies(col_idx)
                   THEN x0 + self.column_center_to_center_spacing.val * col_idx
                   ELSE x0
         IN  Return([x |-> x1 + x_offset, y |-> y1 + y_offset])

(* the plate height asked for although x and y do not use it *)
get_xy_coordinates_of_well_height_needed(self, row_idx, col_idx, x_offset, y_offset) ==
    IF IsNone(self.plate_height)
    THEN Raise("CartesianVectorRequirePlateHeightError")
    ELSE IF IsNone(self.center_of_a1)
    THEN Raise("WellCoordinatesRequireA1CenterError")
    ELSE IF RowOffsetApplies(row_idx) /\ IsNone(self.row_center_to_center_spacing)
    THEN Raise("WellCoordinatesRequireRowOffsetError")
    ELSE IF ColumnOffsetApplies(col_idx) /\ IsNone(self.column_center_to_center_spacing)
    THEN Raise("WellCoordinatesRequireColumnOffsetError")
    ELSE LET x0 == self.center_of_a1.val[1]
             y0 == self.center_of_a1.val[2]
             y1 == IF RowOffsetApplies(row_idx)
                   THEN y0 + self.row_center_to_center_spacing.val * row_idx
                   ELSE y0
             x1 == IF ColumnOffsetApplies(col_idx)
                   THEN x0 + self.column_center_to_center_spacing.val * col_idx
                   ELSE x0
         IN  Return([x |-> x1 + x_offset, y |-> y1 + y_offset])

get_xy_coordinates_of_well(self, row_idx, col_idx, x_offset, y_offset) ==
    IF IsNone(self.center_of_a1)
    THEN Raise("WellCoordinatesRequireA1CenterError")
    ELSE IF RowOffsetApplies(row_idx) /\ IsNone(self.row_center_to_center_spacing)
    THEN Raise("WellCoordinatesRequireRowOffsetError")
    ELSE IF ColumnOffsetApplies(col_idx) /\ IsNone(self.column_center_to_center_spacing)
    THEN Raise("WellCoordinatesRequireColumnOffsetError")
    ELSE LET x0 == self.center_of_a1.val[1]
             y0 == self.center_of_a1.val[2]
             y1 == IF RowOffsetApplies(row_idx)
                   THEN y0 + self.row_center_to_center_spacing.val * row_idx
                   ELSE y0
             x1 == IF ColumnOffsetApplies(col_idx)
                   THEN x0 + self.column_center_to_center_spacing.val * col_idx
                   ELSE x0
         IN  Return([x |-> x1 + x_offset, y |-> y1 + y_offset])

CoordinateSystem(x, y, z, z_points_up) ==
    [x_of_plate_origin |-> x,
     y_of_plate_origin |-> y,
     z_of_plate_origin |-> z,
     z_points_up |-> z_points_up]

CartesianVector(x, y, z) == [x |-> x, y |-> y, z |-> z]

(* y_transform = -1 if z_points_up else 1 *)
YTransform(z_points_up) == IF z_points_up THEN -1 ELSE 1

(* z kept positive whichever way z points *)
ZTransformAlwaysUp(z_points_up) == IF z_points_up THEN 1 ELSE 1

(* z_transform = 1 if z_points_up else -1 *)
ZTransform(z_points_up) == IF z_points_up THEN 1 ELSE -1

(* y negated after the translation onto the plate origin, not before *)
get_cartesian_vector_to_top_of_well_late_transform(self, row_idx, col_idx, coordinate_system, offset_towards_right_plate_edge, offset_towards_rear_of_plate, offset_towards_lid_of_plate) ==
    IF IsNone(self.plate_height)
    THEN Raise("CartesianVectorRequirePlateHeightError")
    ELSE LET z_points_up == coordinate_system.z_points_up
             y_offset == offset_towards_rear_of_plate * (-1)
             well_coordinate ==
                 get_xy_coordinates_of_well(self, row_idx, col_idx,
                                            offset_towards_right_plate_edge, y_offset)
         IN  IF well_coordinate.kind = "raise" THEN well_coordinate
             ELSE LET x_coord == well_coordinate.value.x
                      y_coord == well_coordinate.value.y
                      z_coord == (self.plate_height.val + offset_towards_lid_of_plate)
                                     * ZTransform(z_points_up)
                  IN  Return(CartesianVector(
                          x_coord + coordinate_system.x_of_plate_origin,
                          (y_coord + coordinate_system.y_of_plate_origin)
                              * YTransform(z_points_up),
                          z_coord + coordinate_system.z_of_plate_origin))

(* the well coordinate computed before plate_height is looked at *)
get_cartesian_vector_to_top_of_well_height_last(self, row_idx, col_idx, coordinate_system, offset_towards_right_plate_edge, offset_towards_rear_of_plate, offset_towards_lid_of_plate) ==
    LET z_points_up == coordinate_system.z_points_up
        y_offset == offset_towards_rear_of_plate * (-1)
        well_coordinate ==
            get_xy_coordinates_of_well(self, row_idx, col_idx,
                                       offset_towards_right_plate_edge, y_offset)
    IN  IF well_coordinate.kind = "raise" THEN well_coordinate
        ELSE IF IsNone(self.plate_height)
        THEN Raise("CartesianVectorRequirePlateHeightError")
        ELSE LET x_coord == well_coordinate.value.x
                 y_coord == well_coordinate.value.y * YTransform(z_points_up)
                 z_coord == (self.plate_height.val + offset_towards_lid_of_plate)
                                * ZTransform(z_points_up)
             IN  Return(CartesianVector(
                     x_coord + coordinate_system.x_of_plate_origin,
                     y_coord + coordinate_system.y_of_plate_origin,
                     z_coord + coordinate_system.z_of_plate_origin))

get_cartesian_vector_to_top_of_well(self, row_idx, col_idx, coordinate_system, offset_towards_right_plate_edge, offset_towards_rear_of_plate, offset_towards_lid_of_plate) ==
    IF IsNone(self.plate_height)
    THEN Raise("CartesianVectorRequirePlateHeightError")
    ELSE LET z_points_up == coordinate_system.z_points_up
             y_offset == offset_towards_rear_of_plate * (-1)
             well_coordinate ==
                 get_xy_coordinates_of_well(self, row_idx, col_idx,
                                            offset_towards_right_plate_edge, y_offset)
         IN  IF well_coordinate.kind = "raise" THEN well_coordinate
             ELSE LET x_coord == well_coordinate.value.x
                      y_coord == well_coordinate.value.y * YTransform(z_points_up)
                      z_coord == (self.plate_height.val + offset_towards_lid_of_plate)
                                     * ZTransform(z_points_up)
                  IN  Return(CartesianVector(
                          x_coord + coordinate_system.x_of_plate_origin,
                          y_coord + coordinate_system.y_of_plate_origin,
                          z_coord + coordinate_system.z_of_plate_origin))

(* An object as __eq__ meets it: its class and, for a definition, its     *)
(* attributes.  A Python value (None, 9, "wakka") carries its type.        *)
Instance(class_name, attributes) == [type |-> class_name, attributes |-> attributes]

(* distance_to_liquid left out of the comparison *)
__eq___without_distance_to_liquid(self, other) ==
    IF "LabwareDefinition" # other.type THEN FALSE
    ELSE IF self.column_count # other.attributes.column_count THEN FALSE
    ELSE IF self.row_count # other.attributes.row_count THEN FALSE
    ELSE IF self.name # other.attributes.name THEN FALSE
    ELSE IF self.uuid # other.attributes.uuid THEN FALSE
    ELSE IF self.center_of_a1 # other.attributes.center_of_a1 THEN FALSE
    ELSE IF self.plate_height # other.attributes.plate_height THEN FALSE
    ELSE IF self.row_center_to_center_spacing
                # other.attributes.row_center_to_center_spacing THEN FALSE
    ELSE IF self.column_center_to_center_spacing
                # other.attributes.column_center_to_center_spacing THEN FALSE
    ELSE TRUE

(* __eq__ of a LabwareDefinition: the classes, then the attributes one by  *)
(* one.  The values compared are None, integers, strings and tuples of     *)
(* integers, on which != is inequality of the values.                      *)
__eq__(self, other) ==
    IF "LabwareDefinition" # other.type THEN FALSE
    ELSE IF self.column_count # other.attributes.column_count THEN FALSE
    ELSE IF self.row_count # other.attributes.row_count THEN FALSE
    ELSE IF self.name # other.attributes.name THEN FALSE
    ELSE IF self.uuid # other.attributes.uuid THEN FALSE
    ELSE IF self.center_of_a1 # other.attributes.center_of_a1 THEN FALSE
    ELSE IF self.plate_height # other.attributes.plate_height THEN FALSE
    ELSE IF self.row_center_to_center_spacing
                # other.attributes.row_center_to_center_spacing THEN FALSE
    ELSE IF self.column_center_to_center_spacing
                # other.attributes.column_center_to_center_spacing THEN FALSE
    ELSE IF self.distance_to_liquid # other.attributes.distance_to_liquid THEN FALSE
    ELSE TRUE

(* A reference to an instance: the definition the call is made on, or the *)
(* one the call constructed.                                               *)
InstanceRef(name) == [type |-> "LabwareDefinition", instance |-> name]

(* (center_of_a1[1], center_of_a1[1]): the same index twice *)
SwappedCenter_same_index(center_of_a1) ==
    IF IsNone(center_of_a1) THEN None
    ELSE PyTuple(<<center_of_a1.val[2], center_of_a1.val[2]>>)

(* (y, x) of center_of_a1, when there is one *)
SwappedCenter(center_of_a1) ==
    IF IsNone(center_of_a1) THEN None
    ELSE PyTuple(<<center_of_a1.val[2], center_of_a1.val[1]>>)

(* the counts swapped but each spacing left on its axis *)
PortraitAttributesSpacingsKept(self) ==
    LabwareDefinition(None, None, self.column_count, self.row_count, SwappedCenter(self.center_of_a1), self.plate_height, self.row_center_to_center_spacing, self.column_center_to_center_spacing, self.distance_to_liquid)

(* the uuid and the name copied with the rest *)
PortraitAttributesWithIdentity(self) ==
    LabwareDefinition(self.uuid, self.name, self.column_count, self.row_count, SwappedCenter(self.center_of_a1), self.plate_height, self.column_center_to_center_spacing, self.row_center_to_center_spacing, self.distance_to_liquid)

(* The attributes of the instance that self.__class__(...) constructs: no  *)
(* uuid and no name are passed, so both are None.                          *)
PortraitAttributes(self) ==
    LabwareDefinition(None, None, self.column_count, self.row_count, SwappedCenter(self.center_of_a1), self.plate_height, self.column_center_to_center_spacing, self.row_center_to_center_spacing, self.distance_to_liquid)

(* What create_portrait_definition leaves behind: self, the instance it    *)
(* constructed and the reference it returns.                               *)
Construction(self, created, outcome) ==
    [self |-> self, created |-> created, outcome |-> outcome]

(* self rotated in place and returned *)
create_portrait_definition_in_place(self) ==
    Construction([PortraitAttributes(self) EXCEPT !.uuid = self.uuid, !.name = self.name],
                 None, Return(InstanceRef("self")))

create_portrait_definition(self) ==
    Construction(self, PortraitAttributes(self), Return(InstanceRef("portrait")))

---------------------------------------------------------------------------
(* The definitions that are constructed, and the arguments that are passed *)

(* how far below 0 and beyond the last row, column or well an argument goes *)
ArgMargin == 1

(* the largest row and column index passed to get_xy_coordinates_of_well *)
MaxXyIndex == 2

(* the largest row index passed to row_index0_to_letters *)
MaxCodecIndex == 730

(* the plate formats of the tests (3x4, 4x6, 8x12, 16x24, 32x48) and the  *)
(* counts around the second row letter and the padding threshold           *)
RowCounts == {1, 2, 3, 4, 8, 16, 26, 27, MaxRowCount}

ColumnCounts ==
    {1, 2, 4, 6, 9, PadColumnCountThreshold, PadColumnCountThreshold + 1, 12, 24,
     MaxColumnCount}

(* counts that validate_int refuses *)
BadCounts(maximum) ==
    {None, PyStr("bob"), PyFloat("9.2"), PyInt(0), PyInt(maximum + 1)}

GENERIC_UUID == PyStr("3d118df7-3cb1-484e-85cd-b06def38bc91")

(* a uuid that uuid4() makes *)
NewUuids == {PyStr("0b7c1a52-6d3e-4c1f-8e2a-9f4d5b6c7a80")}

(* LabwareDefinition(row_count=r, column_count=c), as the tests build it *)
AddressingDefinitions ==
    {LabwareDefinition(None, None, r, c, None, None, None, None, None) :
        r \in {PyInt(n) : n \in RowCounts} \cup BadCounts(MaxRowCount),
        c \in {PyInt(n) : n \in ColumnCounts} \cup BadCounts(MaxColumnCount)}

(* GENERIC_LABWARE_DEFINITION_KWARGS with any of its geometry keys removed *)
GeometryDefinitions ==
    {LabwareDefinition(GENERIC_UUID, PyStr("12-well"), PyInt(3), PyInt(4),
                       a1, height, rs, cs, liquid) :
        a1 \in {None, PyTuple(<<80, 70>>)},
        height \in {None, PyInt(134)},
        rs \in {None, PyInt(120)},
        cs \in {None, PyInt(150)},
        liquid \in {None, PyInt(40)}}

(* the 8-row trough of the rotation test: no column_count, no column      *)
(* spacing, no plate height (14.29, 11.18 and 9.01 mm to the tenth)        *)
TroughDefinitions ==
    {LabwareDefinition(None, None, PyInt(8), None, PyTuple(<<143, 112>>), None,
                       PyInt(90), None, PyInt(20))}

Definitions == AddressingDefinitions \cup GeometryDefinitions \cup TroughDefinitions

HasValidCounts(d) ==
    /\ d.row_count.type = "int"
    /\ d.row_count.val \in MinRowCount..MaxRowCount
    /\ d.column_count.type = "int"
    /\ d.column_count.val \in MinColumnCount..MaxColumnCount

RowArgs(d) ==
    IF HasValidCounts(d) THEN (0 - ArgMargin)..(d.row_count.val - 1 + ArgMargin)
    ELSE (0 - ArgMargin)..ArgMargin

ColumnArgs(d) ==
    IF HasValidCounts(d) THEN (0 - ArgMargin)..(d.column_count.val - 1 + ArgMargin)
    ELSE (0 - ArgMargin)..ArgMargin

WellIndexArgs(d) ==
    IF HasValidCounts(d)
    THEN (0 - ArgMargin)..(d.row_count.val * d.column_count.val - 1 + ArgMargin)
    ELSE (0 - ArgMargin)..ArgMargin

(* the names of the wells of d, column padded or not, and two names that  *)
(* do not parse ("A", "7")                                                 *)
WellNameArgsOf(d) ==
    (IF HasValidCounts(d)
     THEN {get_well_name_from_well_index(d, i, pad).outcome.value :
              i \in 0..(d.row_count.val * d.column_count.val - 1), pad \in BOOLEAN}
     ELSE {<<65, 49>>, <<65, 48, 49>>})
        \cup {<<65>>, <<55>>}

XyIndexArgs == 0..MaxXyIndex

(* the attributes of a definition *)
Attributes ==
    {"uuid", "name", "row_count", "column_count", "center_of_a1", "plate_height",
     "row_center_to_center_spacing", "column_center_to_center_spacing",
     "distance_to_liquid"}

(* for each attribute, two values of the equality tests that differ *)
OtherValues(attribute) ==
    CASE attribute = "uuid" ->
             <<GENERIC_UUID, PyStr("6f1e3b9a-0c8d-4f7e-9a55-1d2c3b4a5e6f")>>
      [] attribute = "name" -> <<PyStr("bob"), PyStr("joe")>>
      [] attribute = "row_count" -> <<PyInt(8), PyInt(5)>>
      [] attribute = "column_count" -> <<PyInt(12), PyInt(6)>>
      [] attribute = "center_of_a1" -> <<PyTuple(<<220, 333>>), PyTuple(<<220, 334>>)>>
      [] attribute = "plate_height" -> <<PyInt(122), PyInt(132)>>
      [] OTHER -> <<PyInt(90), PyInt(45)>>

(* what d is compared with: a definition with the same attributes, the     *)
(* definitions that differ from it in one attribute, an empty definition,  *)
(* an instance of a subclass with the attributes of d, and 9, "wakka" and  *)
(* None                                                                    *)
OthersOf(d) ==
    {Instance("LabwareDefinition", d),
     Instance("LabwareDefinition",
              LabwareDefinition(None, None, None, None, None, None, None, None, None)),
     Instance("LabwareDefinitionSubclass", d),
     PyInt(9), PyStr("wakka"), None}
        \cup {Instance("LabwareDefinition",
                       [d EXCEPT ![a] = IF @ = OtherValues(a)[1] THEN OtherValues(a)[2]
                                        ELSE OtherValues(a)[1]]) : a \in Attributes}

XOffsets == {0, -20}

YOffsets == {0, 40}

(* the plate at the origin of the frame, or at (100, 200, 50) mm *)
CoordinateSystems ==
    {CoordinateSystem(o[1], o[2], o[3], up) :
        o \in {<<0, 0, 0>>, <<1000, 2000, 500>>}, up \in BOOLEAN}

RightOffsets == {0, 50}

RearOffsets == {0, 40}

LidOffsets == {0, 20, -30}

---------------------------------------------------------------------------
(* The state machine: a definition, the call made on it and its outcome.   *)

IdleCall == [op |-> "idle"]

NoOutcome == [kind |-> "none"]

Idle == call = IdleCall

Init ==
    /\ defn \in Definitions
    /\ call = IdleCall
    /\ ret = NoOutcome
    /\ portrait = None

Finish(c, effect) ==
    /\ call' = c
    /\ defn' = effect.self
    /\ ret' = effect.outcome
    /\ UNCHANGED portrait

CallAutopopulate ==
    /\ Idle
    /\ IsNone(defn.uuid)
    /\ \E u \in NewUuids : Finish([op |-> "autopopulate"], autopopulate(defn, u))

CallValidateRowAndColumnCounts ==
    /\ Idle
    /\ Finish([op |-> "validate_row_and_column_counts"],
              validate_row_and_column_counts(defn))

CallValidatePosition ==
    /\ Idle
    /\ \E r \in RowArgs(defn), c \in ColumnArgs(defn) :
          Finish([op |-> "validate_position", test_row |-> r, test_column |-> c],
                 validate_position(defn, r, c))

CallGetWellNameFromRowAndColumn ==
    /\ Idle
    /\ \E r \in RowArgs(defn), c \in ColumnArgs(defn), pad \in BOOLEAN :
          Finish([op |-> "get_well_name_from_row_and_column",
                  row |-> r, column |-> c, pad_zeros |-> pad],
                 get_well_name_from_row_and_column(defn, r, c, pad))

CallGetRowAndColumnFromWellIndex ==
    /\ Idle
    /\ \E i \in WellIndexArgs(defn) :
          Finish([op |-> "get_row_and_column_from_well_index", well_idx |-> i],
                 get_row_and_column_from_well_index(defn, i))

CallGetWellNameFromWellIndex ==
    /\ Idle
    /\ \E i \in WellIndexArgs(defn), pad \in BOOLEAN :
          Finish([op |-> "get_well_name_from_well_index",
                  well_idx |-> i, pad_zeros |-> pad],
                 get_well_name_from_well_index(defn, i, pad))

CallGetWellIndexFromRowAndColumn ==
    /\ Idle
    /\ \E r \in RowArgs(defn), c \in ColumnArgs(defn) :
          Finish([op |-> "get_well_index_from_row_and_column",
                  row |-> r, column |-> c],
                 get_well_index_from_row_and_column(defn, r, c))

CallGetWellIndexFromWellName ==
    /\ Idle
    /\ \E name \in WellNameArgsOf(defn) :
          Finish([op |-> "get_well_index_from_well_name", well_name |-> name],
                 get_well_index_from_well_name(defn, name))

CallGetXyCoordinatesOfWell ==
    /\ Idle
    /\ \E r \in XyIndexArgs, c \in XyIndexArgs, xo \in XOffsets, yo \in YOffsets :
          Finish([op |-> "get_xy_coordinates_of_well", row_idx |-> r,
                  col_idx |-> c, x_offset |-> xo, y_offset |-> yo],
                 Effect(defn, get_xy_coordinates_of_well(defn, r, c, xo, yo)))

CallGetCartesianVectorToTopOfWell ==
    /\ Idle
    /\ \E r \in XyIndexArgs, c \in XyIndexArgs, cs \in CoordinateSystems,
          right \in RightOffsets, rear \in RearOffsets, lid \in LidOffsets :
          Finish([op |-> "get_cartesian_vector_to_top_of_well",
                  row_idx |-> r, col_idx |-> c, coordinate_system |-> cs,
                  offset_towards_right_plate_edge |-> right,
                  offset_towards_rear_of_plate |-> rear,
                  offset_towards_lid_of_plate |-> lid],
                 Effect(defn, get_cartesian_vector_to_top_of_well(
                                  defn, r, c, cs, right, rear, lid)))

CallEq ==
    /\ Idle
    /\ \E other \in OthersOf(defn) :
          Finish([op |-> "__eq__", other |-> other],
                 Effect(defn, Return(__eq__(defn, other))))

CallCreatePortraitDefinition ==
    /\ Idle
    /\ LET c == create_portrait_definition(defn)
       IN  /\ call' = [op |-> "create_portrait_definition"]
           /\ defn' = c.self
           /\ portrait' = c.created
           /\ ret' = c.outcome

(* the caller takes the outcome and may call again *)
TakeOutcome ==
    /\ ~Idle
    /\ call' = IdleCall
    /\ ret' = NoOutcome
    /\ portrait' = None
    /\ UNCHANGED defn

Next ==
    \/ CallAutopopulate
    \/ CallValidateRowAndColumnCounts
    \/ CallValidatePosition
    \/ CallGetWellNameFromRowAndColumn
    \/ CallGetRowAndColumnFromWellIndex
    \/ CallGetWellNameFromWellIndex
    \/ CallGetWellIndexFromRowAndColumn
    \/ CallGetWellIndexFromWellName
    \/ CallGetXyCoordinatesOfWell
    \/ CallGetCartesianVectorToTopOfWell
    \/ CallEq
    \/ CallCreatePortraitDefinition
    \/ TakeOutcome

Spec == Init /\ [][Next]_vars

---------------------------------------------------------------------------
(* The functions of the module that take no definition, applied to inputs  *)
(* drawn from bounded sets.                                                *)

CodecIndexArgs == 0..MaxCodecIndex

(* "a", "A1", "[" *)
UnsupportedLabels == {<<97>>, <<65, 49>>, <<91>>}

LabelArgs == {row_index0_to_letters(i) : i \in CodecIndexArgs} \cup UnsupportedLabels

(* the name of every well of the largest plate, column padded or not *)
WellNameOf(row, column, padded) ==
    row_index0_to_letters(row)
        \o (IF padded THEN ZFill(FormatInt(column + 1), PadWidth)
            ELSE FormatInt(column + 1))

(* "A", "7" *)
MalformedWellNames == {<<65>>, <<55>>}

WellNameArgs ==
    {WellNameOf(r, c, p) : r \in 0..(MaxRowCount - 1),
                           c \in 0..(MaxColumnCount - 1), p \in BOOLEAN}
        \cup MalformedWellNames

InitFunctions ==
    /\ defn = None
    /\ call = IdleCall
    /\ ret = NoOutcome
    /\ portrait = None

CallRowIndex0ToLetters ==
    /\ Idle
    /\ \E i \in CodecIndexArgs :
          /\ call' = [op |-> "row_index0_to_letters", row |-> i]
          /\ ret' = Return(row_index0_to_letters(i))
    /\ UNCHANGED <<defn, portrait>>

CallRowLettersToIndex0 ==
    /\ Idle
    /\ \E label \in LabelArgs :
          /\ call' = [op |-> "row_letters_to_index0", row |-> label]
          /\ ret' = row_letters_to_index0(label)
    /\ UNCHANGED <<defn, portrait>>

CallGetRowAndColumnFromWellName ==
    /\ Idle
    /\ \E name \in WellNameArgs :
          /\ call' = [op |-> "get_row_and_column_from_well_name", well_name |-> name]
          /\ ret' = get_row_and_column_from_well_name(name)
    /\ UNCHANGED <<defn, portrait>>

NextFunctions ==
    \/ CallRowIndex0ToLetters
    \/ CallRowLettersToIndex0
    \/ CallGetRowAndColumnFromWellName
    \/ TakeOutcome

SpecFunctions == InitFunctions /\ [][NextFunctions]_vars

---------------------------------------------------------------------------
(* Properties *)

InRange(d, row, column) ==
    /\ row \in 0..(d.row_count.val - 1)
    /\ column \in 0..(d.column_count.val - 1)

IsWellIndex(d, i) == i \in 0..(d.row_count.val * d.column_count.val - 1)

CountsAre(d, rows, columns) ==
    /\ d.row_count = PyInt(rows)
    /\ d.column_count = PyInt(columns)

(* C1: the linear well index is column-major.  On a definition with valid  *)
(* counts, get_well_index_from_row_and_column(row, column) returns         *)
(* column * row_count + row for every position of the plate, and           *)
(* get_row_and_column_from_well_index(i) returns                           *)
(* (i mod row_count, floor(i / row_count)) for every well index i.         *)
C1_ColumnMajorIndex ==
    /\ (/\ call.op = "get_well_index_from_row_and_column"
        /\ HasValidCounts(defn)
        /\ InRange(defn, call.row, call.column))
       => ret = Return(call.column * defn.row_count.val + call.row)
    /\ (/\ call.op = "get_row_and_column_from_well_index"
        /\ HasValidCounts(defn)
        /\ IsWellIndex(defn, call.well_idx))
       => ret = Return(<<call.well_idx % defn.row_count.val,
                         call.well_idx \div defn.row_count.val>>)

(* index 368 of the 384-well plate is row 0 of the last column *)
C1_Witness ==
    /\ call.op = "get_row_and_column_from_well_index"
    /\ CountsAre(defn, 16, 24)
    /\ call.well_idx = 368
    /\ ret = Return(<<0, 23>>)

(* C2: well-index round trip.  On a definition with valid counts, for      *)
(* every well index i, get_well_index_from_row_and_column applied to the   *)
(* row and column that get_row_and_column_from_well_index(i) returned      *)
(* gives i back.                                                           *)
C2_WellIndexRoundTrip ==
    (/\ call.op = "get_row_and_column_from_well_index"
     /\ HasValidCounts(defn)
     /\ IsWellIndex(defn, call.well_idx))
    => /\ Returned(ret)
       /\ get_well_index_from_row_and_column(defn, ret.value[1], ret.value[2]).outcome
              = Return(call.well_idx)

(* the last well of the 1536-well plate *)
C2_Witness ==
    /\ call.op = "get_row_and_column_from_well_index"
    /\ CountsAre(defn, MaxRowCount, MaxColumnCount)
    /\ call.well_idx = MaxRowCount * MaxColumnCount - 1
    /\ ret = Return(<<MaxRowCount - 1, MaxColumnCount - 1>>)

(* C3: row-label codec round trip.  For every row index i in 0..31,        *)
(* row_letters_to_index0(row_index0_to_letters(i)) = i.                    *)
C3_CodecRoundTrip ==
    (/\ call.op = "row_index0_to_letters"
     /\ call.row \in 0..(MaxRowCount - 1))
    => /\ Returned(ret)
       /\ row_letters_to_index0(ret.value) = Return(call.row)

(* row 31, the last row of the 1536-well plate, is "AF" *)
C3_Witness ==
    /\ call.op = "row_index0_to_letters"
    /\ call.row = MaxRowCount - 1
    /\ ret = Return(<<65, 70>>)

(* C4: row_index0_to_letters numbers the rows in bijective base 26.  An    *)
(* index below 26 gives the single letter chr(65 + i); an index from 26 on *)
(* gives several letters, the most significant first, with no digit for    *)
(* zero: 26 is "AA" and 31 is "AF", the two-letter labels run from "AA"    *)
(* (26) to "ZZ" (701) and the three-letter labels start at "AAA" (702).    *)
C4_BijectiveBase26 ==
    call.op = "row_index0_to_letters"
    => LET i == call.row
       IN  /\ i \in 0..25 => ret = Return(<<65 + i>>)
           /\ i \in 26..701
              => ret = Return(<<65 + ((i - 26) \div 26), 65 + ((i - 26) % 26)>>)
           /\ i >= 702 /\ i < 18278
              => ret = Return(<<65 + ((i - 702) \div 676),
                                65 + (((i - 702) \div 26) % 26),
                                65 + ((i - 702) % 26)>>)
           /\ i = 26 => ret = Return(<<65, 65>>)
           /\ i = 31 => ret = Return(<<65, 70>>)

(* row 26, the first row with two letters, is "AA" *)
C4_Witness ==
    /\ call.op = "row_index0_to_letters"
    /\ call.row = 26
    /\ ret = Return(<<65, 65>>)

(* the column of a well name as get_well_name_from_row_and_column is      *)
(* specified to write it: column + 1, padded to two digits when pad_zeros  *)
(* is set and the plate has more than 10 columns                           *)
ColumnStringOf(d, column, pad_zeros) ==
    IF pad_zeros /\ d.column_count.val > PadColumnCountThreshold
    THEN ZFill(FormatInt(column + 1), PadWidth)
    ELSE FormatInt(column + 1)

(* C5: on the 32x48 plate, for every row in 0..31 and column in 0..47,     *)
(* get_well_name_from_row_and_column returns the Row-Label-Codec label of  *)
(* the row followed by the 1-based column number; rows from 26 on have a   *)
(* two-letter label: (26, 47, pad_zeros) is "AA48" and (31, 47) is "AF48". *)
C5_WellNameUsesRowLabel ==
    (/\ call.op = "get_well_name_from_row_and_column"
     /\ CountsAre(defn, MaxRowCount, MaxColumnCount)
     /\ InRange(defn, call.row, call.column))
    => ret = Return(row_index0_to_letters(call.row)
                        \o ColumnStringOf(defn, call.column, call.pad_zeros))

(* C6: get_row_and_column_from_well_name decodes the whole leading run of  *)
(* letters as the row and the digits that follow, minus 1, as the column:  *)
(* for every row in 0..31 and column in 0..47, the label of the row        *)
(* followed by column + 1, with or without a leading zero, parses to       *)
(* (row, column).                                                          *)
C6_WellNameParsesRowAndColumn ==
    call.op = "get_row_and_column_from_well_name"
    => \A r \in 0..(MaxRowCount - 1), c \in 0..(MaxColumnCount - 1), p \in BOOLEAN :
          call.well_name = WellNameOf(r, c, p) => ret = Return(<<r, c>>)

(* C7: on a definition with valid counts,                                  *)
(* validate_position(row_count - 1, column_count - 1) returns, and         *)
(* validate_position(row_count, c) and validate_position(r, column_count)  *)
(* raise PositionInvalidForLabwareDefinitionError for every r and c.       *)
C7_PositionBounds ==
    (call.op = "validate_position" /\ HasValidCounts(defn))
    => /\ (/\ call.test_row = defn.row_count.val - 1
           /\ call.test_column = defn.column_count.val - 1)
          => ret = Return(None)
       /\ call.test_row = defn.row_count.val
          => Raised(ret, "PositionInvalidForLabwareDefinitionError")
       /\ call.test_column = defn.column_count.val
          => Raised(ret, "PositionInvalidForLabwareDefinitionError")

(* row 2 does not exist on the 2x4 plate, whatever the column *)
C7_Witness ==
    /\ call.op = "validate_position"
    /\ CountsAre(defn, 2, 4)
    /\ call.test_row = 2
    /\ call.test_column = 1
    /\ Raised(ret, "PositionInvalidForLabwareDefinitionError")

(* C8: validate_position accepts exactly the half-open ranges.  On a       *)
(* definition with valid counts it returns if and only if                  *)
(* 0 <= row < row_count and 0 <= column < column_count, so a negative row  *)
(* or column raises the addressing error.                                  *)
C8_PositionHalfOpenRanges ==
    (call.op = "validate_position" /\ HasValidCounts(defn))
    => /\ Returned(ret) <=> InRange(defn, call.test_row, call.test_column)
       /\ ~InRange(defn, call.test_row, call.test_column)
          => Raised(ret, "PositionInvalidForLabwareDefinitionError")

(* C9: a missing spacing is an error only off the first row or column.     *)
(* With center_of_a1 set, get_xy_coordinates_of_well never raises the      *)
(* row-offset error on row 0 and raises it on every row >= 1 when the row  *)
(* spacing is None; it never raises the column-offset error on column 0    *)
(* and raises it on every column >= 1 when the column spacing is None and  *)
(* the row offset did not fail.                                            *)
C9_SpacingNeededOffFirstRowAndColumn ==
    (call.op = "get_xy_coordinates_of_well" /\ ~IsNone(defn.center_of_a1))
    => LET row_fails == /\ call.row_idx >= 1
                        /\ IsNone(defn.row_center_to_center_spacing)
       IN  /\ call.row_idx = 0
              => ~Raised(ret, "WellCoordinatesRequireRowOffsetError")
           /\ row_fails => Raised(ret, "WellCoordinatesRequireRowOffsetError")
           /\ call.col_idx = 0
              => ~Raised(ret, "WellCoordinatesRequireColumnOffsetError")
           /\ (/\ call.col_idx >= 1
               /\ IsNone(defn.column_center_to_center_spacing)
               /\ ~row_fails)
              => Raised(ret, "WellCoordinatesRequireColumnOffsetError")

(* row 0 of a definition without row spacing: the well is computed *)
C9_Witness ==
    /\ call.op = "get_xy_coordinates_of_well"
    /\ ~IsNone(defn.center_of_a1)
    /\ IsNone(defn.row_center_to_center_spacing)
    /\ ~IsNone(defn.column_center_to_center_spacing)
    /\ call.row_idx = 0
    /\ call.col_idx = 2
    /\ Returned(ret)

(* C10: get_xy_coordinates_of_well raises                                  *)
(* WellCoordinatesRequireA1CenterError whenever center_of_a1 is None,      *)
(* whatever the row, the column, the offsets and the spacings.             *)
C10_MissingCenterRaises ==
    (call.op = "get_xy_coordinates_of_well" /\ IsNone(defn.center_of_a1))
    => Raised(ret, "WellCoordinatesRequireA1CenterError")

(* no center and no spacing either, off the first row and column *)
C10_Witness ==
    /\ call.op = "get_xy_coordinates_of_well"
    /\ IsNone(defn.center_of_a1)
    /\ IsNone(defn.row_center_to_center_spacing)
    /\ IsNone(defn.column_center_to_center_spacing)
    /\ call.row_idx = 1
    /\ call.col_idx = 1
    /\ Raised(ret, "WellCoordinatesRequireA1CenterError")

(* C11: with center_of_a1 = (ax, ay) and both spacings set, for every     *)
(* row >= 0, column >= 0 and offsets, get_xy_coordinates_of_well returns   *)
(* (ax + col * column_spacing + x_offset, ay + row * row_spacing +         *)
(* y_offset): y grows down the rows, x grows across the columns and the    *)
(* offsets are added last.                                                 *)
C11_XyCoordinates ==
    (/\ call.op = "get_xy_coordinates_of_well"
     /\ ~IsNone(defn.center_of_a1)
     /\ ~IsNone(defn.row_center_to_center_spacing)
     /\ ~IsNone(defn.column_center_to_center_spacing)
     /\ call.row_idx >= 0
     /\ call.col_idx >= 0)
    => ret = Return([x |-> defn.center_of_a1.val[1]
                           + call.col_idx * defn.column_center_to_center_spacing.val
                           + call.x_offset,
                     y |-> defn.center_of_a1.val[2]
                           + call.row_idx * defn.row_center_to_center_spacing.val
                           + call.y_offset])

(* the fixture's well (2, 2) with both offsets: 8 + 2 * 15 - 2 = 36 mm,   *)
(* 7 + 2 * 12 + 4 = 35 mm                                                  *)
C11_Witness ==
    /\ call.op = "get_xy_coordinates_of_well"
    /\ defn.center_of_a1 = PyTuple(<<80, 70>>)
    /\ call.row_idx = 2
    /\ call.col_idx = 2
    /\ call.x_offset = -20
    /\ call.y_offset = 40
    /\ ret = Return([x |-> 360, y |-> 350])

(* the well center without offsets, when the definition has the geometry  *)
(* that the position needs                                                 *)
WellCenter(d, row_idx, col_idx) == get_xy_coordinates_of_well(d, row_idx, col_idx, 0, 0)

CartesianCallReturns ==
    /\ call.op = "get_cartesian_vector_to_top_of_well"
    /\ ~IsNone(defn.plate_height)
    /\ Returned(WellCenter(defn, call.row_idx, call.col_idx))

(* C12: when coordinate_system.z_points_up is true,                        *)
(* get_cartesian_vector_to_top_of_well returns                             *)
(* x = well_x + right_offset + x_of_plate_origin,                          *)
(* y = -(well_y - rear_offset) + y_of_plate_origin and                     *)
(* z = +(plate_height + lid_offset) + z_of_plate_origin, where             *)
(* (well_x, well_y) is the well center without offsets: y is negated       *)
(* before the translation onto the plate origin, not after it.             *)
C12_CartesianVectorZUp ==
    (CartesianCallReturns /\ call.coordinate_system.z_points_up)
    => LET well == WellCenter(defn, call.row_idx, call.col_idx).value
           cs == call.coordinate_system
       IN  ret = Return([x |-> well.x + call.offset_towards_right_plate_edge
                               + cs.x_of_plate_origin,
                         y |-> 0 - (well.y - call.offset_towards_rear_of_plate)
                               + cs.y_of_plate_origin,
                         z |-> (defn.plate_height.val
                                + call.offset_towards_lid_of_plate)
                               + cs.z_of_plate_origin])

(* A1 of the fixture seen from (100, 200, 50) mm with z up: (108, 193,    *)
(* 63.4) mm                                                                *)
C12_Witness ==
    /\ call.op = "get_cartesian_vector_to_top_of_well"
    /\ call.coordinate_system = CoordinateSystem(1000, 2000, 500, TRUE)
    /\ call.row_idx = 0
    /\ call.col_idx = 0
    /\ call.offset_towards_right_plate_edge = 0
    /\ call.offset_towards_rear_of_plate = 0
    /\ call.offset_towards_lid_of_plate = 0
    /\ ret = Return([x |-> 1080, y |-> 1930, z |-> 634])

(* C13: when coordinate_system.z_points_up is false,                       *)
(* get_cartesian_vector_to_top_of_well returns                             *)
(* x = well_x + right_offset + x_of_plate_origin,                          *)
(* y = (well_y - rear_offset) + y_of_plate_origin and                      *)
(* z = -(plate_height + lid_offset) + z_of_plate_origin: y is unchanged, z *)
(* is negated and the plate origin is added to each component afterwards.  *)
C13_CartesianVectorZDown ==
    (CartesianCallReturns /\ ~call.coordinate_system.z_points_up)
    => LET well == WellCenter(defn, call.row_idx, call.col_idx).value
           cs == call.coordinate_system
       IN  ret = Return([x |-> well.x + call.offset_towards_right_plate_edge
                               + cs.x_of_plate_origin,
                         y |-> (well.y - call.offset_towards_rear_of_plate)
                               + cs.y_of_plate_origin,
                         z |-> 0 - (defn.plate_height.val
                                    + call.offset_towards_lid_of_plate)
                               + cs.z_of_plate_origin])

(* A1 of the fixture seen from (100, 200, 50) mm with z down and the lid  *)
(* offset of -3 mm: (108, 207, 50 - 10.4) mm                               *)
C13_Witness ==
    /\ call.op = "get_cartesian_vector_to_top_of_well"
    /\ call.coordinate_system = CoordinateSystem(1000, 2000, 500, FALSE)
    /\ call.row_idx = 0
    /\ call.col_idx = 0
    /\ call.offset_towards_right_plate_edge = 0
    /\ call.offset_towards_rear_of_plate = 0
    /\ call.offset_towards_lid_of_plate = -30
    /\ ret = Return([x |-> 1080, y |-> 2070, z |-> 396])

(* C14: get_cartesian_vector_to_top_of_well raises                         *)
(* CartesianVectorRequirePlateHeightError whenever plate_height is None,   *)
(* whatever the row, the column, the coordinate system and the offsets.    *)
C14_MissingPlateHeightRaises ==
    (call.op = "get_cartesian_vector_to_top_of_well" /\ IsNone(defn.plate_height))
    => Raised(ret, "CartesianVectorRequirePlateHeightError")

(* no plate height and no center either *)
C14_Witness ==
    /\ call.op = "get_cartesian_vector_to_top_of_well"
    /\ IsNone(defn.plate_height)
    /\ IsNone(defn.center_of_a1)
    /\ call.row_idx = 1
    /\ Raised(ret, "CartesianVectorRequirePlateHeightError")

(* C15: create_portrait_definition returns a definition with row_count =  *)
(* the source's column_count, column_count = the source's row_count, row   *)
(* spacing = the source's column spacing, column spacing = the source's    *)
(* row spacing, the source's plate_height and distance_to_liquid, and      *)
(* center_of_a1 = (source y, source x) when the source has one and None    *)
(* otherwise; what is unset in the source is unset in the swapped place.   *)
C15_PortraitSwapsGeometry ==
    call.op = "create_portrait_definition"
    => /\ ret = Return(InstanceRef("portrait"))
       /\ portrait.row_count = defn.column_count
       /\ portrait.column_count = defn.row_count
       /\ portrait.row_center_to_center_spacing = defn.column_center_to_center_spacing
       /\ portrait.column_center_to_center_spacing = defn.row_center_to_center_spacing
       /\ portrait.plate_height = defn.plate_height
       /\ portrait.distance_to_liquid = defn.distance_to_liquid
       /\ IF IsNone(defn.center_of_a1) THEN IsNone(portrait.center_of_a1)
          ELSE /\ portrait.center_of_a1.type = "tuple"
               /\ portrait.center_of_a1.val[1] = defn.center_of_a1.val[2]
               /\ portrait.center_of_a1.val[2] = defn.center_of_a1.val[1]

(* the trough: the portrait has no row_count and no row spacing, 8 columns *)
(* and the row spacing of the trough between its columns                   *)
C15_Witness ==
    /\ call.op = "create_portrait_definition"
    /\ defn \in TroughDefinitions
    /\ IsNone(portrait.row_count)
    /\ portrait.column_count = PyInt(8)
    /\ IsNone(portrait.row_center_to_center_spacing)
    /\ portrait.column_center_to_center_spacing = PyInt(90)
    /\ portrait.center_of_a1 = PyTuple(<<112, 143>>)
    /\ portrait.distance_to_liquid = PyInt(20)

(* C16: create_portrait_definition never mutates its source.  After the    *)
(* call every attribute of the source (uuid, name, counts, center_of_a1,   *)
(* plate_height, both spacings, distance_to_liquid) has the value it had   *)
(* before, and the definition returned is another instance.                *)
C16_PortraitLeavesSource ==
    [][call'.op = "create_portrait_definition"
       => /\ defn' = defn
          /\ ret' = Return(InstanceRef("portrait"))
          /\ portrait' # None]_vars

(* the fixture, with its uuid and name, after it was rotated *)
C16_Witness ==
    /\ call.op = "create_portrait_definition"
    /\ defn.uuid = GENERIC_UUID
    /\ defn.row_count = PyInt(3)
    /\ defn.column_count = PyInt(4)
    /\ portrait # None
    /\ portrait.row_count = PyInt(4)
    /\ portrait.column_count = PyInt(3)

(* C17: create_portrait_definition copies neither the uuid nor the name.   *)
(* For a source that has a uuid and a name, the uuid of the portrait is    *)
(* not the uuid of the source and the name of the portrait is unset.       *)
C17_PortraitHasNoIdentity ==
    (/\ call.op = "create_portrait_definition"
     /\ ~IsNone(defn.uuid)
     /\ ~IsNone(defn.name))
    => /\ portrait.uuid # defn.uuid
       /\ IsNone(portrait.name)

(* the portrait of the fixture has neither uuid nor name *)
C17_Witness ==
    /\ call.op = "create_portrait_definition"
    /\ defn.uuid = GENERIC_UUID
    /\ defn.name = PyStr("12-well")
    /\ IsNone(portrait.uuid)
    /\ IsNone(portrait.name)
    /\ ~IsNone(portrait.plate_height)

(* the validation error that matches a count that is not an integer of   *)
(* minimum..maximum                                                        *)
CountError(value, minimum, maximum) ==
    IF value.type = "NoneType" THEN "ValidationCollectionEmptyValueError"
    ELSE IF value.type = "str" THEN "ValidationCollectionCannotCoerceError"
    ELSE IF value.type = "float" THEN "ValidationCollectionNotAnIntegerError"
    ELSE IF value.val < minimum THEN "ValidationCollectionMinimumValueError"
    ELSE "ValidationCollectionMaximumValueError"

IsIntegerIn(value, minimum, maximum) ==
    value.type = "int" /\ value.val >= minimum /\ value.val <= maximum

(* C18: validate_row_and_column_counts succeeds exactly when row_count is  *)
(* an integer in 1..32 and column_count is an integer in 1..48; a count    *)
(* that is None, not an integer, below the minimum or above the maximum    *)
(* fails with the matching validation error, which names the offending     *)
(* field (row_count before column_count).                                  *)
C18_CountsValidation ==
    call.op = "validate_row_and_column_counts"
    => LET row_ok == IsIntegerIn(defn.row_count, 1, 32)
           column_ok == IsIntegerIn(defn.column_count, 1, 48)
       IN  /\ Returned(ret) <=> (row_ok /\ column_ok)
           /\ ~row_ok
              => ret = RaiseFor(CountError(defn.row_count, 1, 32), "row_count")
           /\ (row_ok /\ ~column_ok)
              => ret = RaiseFor(CountError(defn.column_count, 1, 48), "column_count")

(* 32 rows and 49 columns: one column too many *)
C18_Witness ==
    /\ call.op = "validate_row_and_column_counts"
    /\ defn.row_count = PyInt(32)
    /\ defn.column_count = PyInt(49)
    /\ ret = RaiseFor("ValidationCollectionMaximumValueError", "column_count")

(* column + 1 in two digits *)
TwoDigits(column) ==
    IF column + 1 < 10 THEN <<48, 48 + column + 1>> ELSE FormatInt(column + 1)

C20_PaddingOnMoreThanNineColumns ==
    (/\ call.op = "get_well_name_from_row_and_column"
     /\ call.pad_zeros
     /\ HasValidCounts(defn)
     /\ defn.column_count.val > 9
     /\ call.column \in 0..8)
    => /\ Returned(ret)
       /\ Tail(ret.value) = <<48, 48 + call.column + 1>>

(* C21: the addressing error raised by validate_position carries the      *)
(* offending position and the definition: checked_row and checked_column   *)
(* are the row and the column passed to validate_position, and             *)
(* labware_definition is the definition the call was made on.              *)
C21_AddressingErrorCarriesPosition ==
    (/\ call.op = "validate_position"
     /\ Raised(ret, "PositionInvalidForLabwareDefinitionError"))
    => /\ ret.checked_row = call.test_row
       /\ ret.checked_column = call.test_column
       /\ ret.labware_definition = defn

(* row 8 of the 8 x 12 plate, column 0 *)
C21_Witness ==
    /\ call.op = "validate_position"
    /\ CountsAre(defn, 8, 12)
    /\ call.test_row = 8
    /\ call.test_column = 0
    /\ Raised(ret, "PositionInvalidForLabwareDefinitionError")
    /\ ret.checked_row = 8
    /\ ret.checked_column = 0

(* C22: get_row_and_column_from_well_index, and                           *)
(* get_well_index_from_row_and_column, on a definition whose row_count is  *)
(* unset fail with the empty-value validation error that names row_count,  *)
(* for every index, and return no result.                                  *)
C22_UnsetRowCountRaises ==
    (/\ call.op \in {"get_row_and_column_from_well_index",
                     "get_well_index_from_row_and_column"}
     /\ IsNone(defn.row_count))
    => /\ ~Returned(ret)
       /\ ret = RaiseFor("ValidationCollectionEmptyValueError", "row_count")

(* LabwareDefinition(column_count=12).get_row_and_column_from_well_index(0) *)
C22_Witness ==
    /\ call = [op |-> "get_row_and_column_from_well_index", well_idx |-> 0]
    /\ IsNone(defn.row_count)
    /\ defn.column_count = PyInt(12)
    /\ ret = RaiseFor("ValidationCollectionEmptyValueError", "row_count")

(* the four errors of a missing geometry field *)
MissingGeometryErrors ==
    {"WellCoordinatesRequireA1CenterError", "WellCoordinatesRequireRowOffsetError",
     "WellCoordinatesRequireColumnOffsetError",
     "CartesianVectorRequirePlateHeightError"}

CoordinateOps == {"get_xy_coordinates_of_well", "get_cartesian_vector_to_top_of_well"}

(* C23: the missing-geometry errors are lazy.  Validating the counts,      *)
(* validating a position, converting names and indices and rotating never  *)
(* raise any of the four, whatever geometry is unset;                      *)
(* get_xy_coordinates_of_well returns with plate_height and                *)
(* distance_to_liquid unset; and each error is raised only by a            *)
(* computation that needs the missing field.                               *)
C23_MissingGeometryErrorsAreLazy ==
    /\ (call.op \notin CoordinateOps /\ ret.kind = "raise")
       => ret.exc \notin MissingGeometryErrors
    /\ (/\ call.op = "get_xy_coordinates_of_well"
        /\ ~IsNone(defn.center_of_a1)
        /\ call.row_idx > 0 => ~IsNone(defn.row_center_to_center_spacing)
        /\ call.col_idx > 0 => ~IsNone(defn.column_center_to_center_spacing))
       => Returned(ret)
    /\ (call.op \in CoordinateOps /\ ret.kind = "raise")
       => /\ ret.exc \in MissingGeometryErrors
          /\ ret.exc = "WellCoordinatesRequireA1CenterError"
             => IsNone(defn.center_of_a1)
          /\ ret.exc = "WellCoordinatesRequireRowOffsetError"
             => IsNone(defn.row_center_to_center_spacing) /\ call.row_idx > 0
          /\ ret.exc = "WellCoordinatesRequireColumnOffsetError"
             => IsNone(defn.column_center_to_center_spacing) /\ call.col_idx > 0
          /\ ret.exc = "CartesianVectorRequirePlateHeightError"
             => /\ IsNone(defn.plate_height)
                /\ call.op = "get_cartesian_vector_to_top_of_well"

(* x and y of well (2, 2) with neither plate_height nor distance_to_liquid *)
C23_Witness ==
    /\ call.op = "get_xy_coordinates_of_well"
    /\ call.row_idx = 2
    /\ call.col_idx = 2
    /\ IsNone(defn.plate_height)
    /\ IsNone(defn.distance_to_liquid)
    /\ Returned(ret)

(* the operations that are no validation routine and construct nothing *)
FrameOps ==
    {"get_xy_coordinates_of_well", "get_cartesian_vector_to_top_of_well",
     "get_well_name_from_row_and_column", "get_well_name_from_well_index",
     "get_row_and_column_from_well_index", "get_well_index_from_row_and_column",
     "get_well_index_from_well_name"}

C25_StructuralEquality ==
    call.op = "__eq__"
    => /\ call.other.type # "LabwareDefinition" => ret = Return(FALSE)
       /\ call.other.type = "LabwareDefinition"
          => ret = Return(\A a \in Attributes : defn[a] = call.other.attributes[a])

(* two definitions that differ in distance_to_liquid only *)
C25_Witness ==
    /\ call.op = "__eq__"
    /\ call.other.type = "LabwareDefinition"
    /\ defn.distance_to_liquid # call.other.attributes.distance_to_liquid
    /\ \A a \in Attributes \ {"distance_to_liquid"} :
          defn[a] = call.other.attributes[a]
    /\ ret = Return(FALSE)

(* C26: well name and well index round trip.  On a definition with        *)
(* row_count in 1..32 and column_count in 1..48, for every well index i in *)
(* 0..row_count * column_count - 1 and both values of pad_zeros,           *)
(* get_well_index_from_well_name applied to the name that                  *)
(* get_well_name_from_well_index(i, pad_zeros) returned gives i back.      *)
C26_WellNameRoundTrip ==
    (/\ call.op = "get_well_name_from_well_index"
     /\ HasValidCounts(defn)
     /\ IsWellIndex(defn, call.well_idx))
    => /\ Returned(ret)
       /\ get_well_index_from_well_name(defn, ret.value).outcome
              = Return(call.well_idx)

(* well 8 of the 96-well plate, padded: "A02" *)
C26_Witness ==
    /\ call = [op |-> "get_well_name_from_well_index", well_idx |-> 8,
               pad_zeros |-> TRUE]
    /\ CountsAre(defn, 8, 12)
    /\ ret = Return(<<65, 48, 50>>)
    /\ get_well_index_from_well_name(defn, <<65, 48, 50>>).outcome = Return(8)

(* C27: rotation preserves the validity of the counts.  For every         *)
(* definition whose row_count and column_count pass                        *)
(* validate_row_and_column_counts (row_count in 1..32, column_count in     *)
(* 1..48), the definition that create_portrait_definition returns passes   *)
(* validate_row_and_column_counts too.                                     *)
C27_PortraitCountsAreValid ==
    (/\ call.op = "create_portrait_definition"
     /\ validate_row_and_column_counts(defn).outcome = Return(None))
    => validate_row_and_column_counts(portrait).outcome = Return(None)

(* C28: get_cartesian_vector_to_top_of_well looks for missing fields in a *)
(* fixed order and reports the first only: plate_height before             *)
(* center_of_a1, center_of_a1 before the row spacing, the row spacing      *)
(* (when row > 0) before the column spacing (when column > 0).  A          *)
(* definition without plate_height and center_of_a1 raises the             *)
(* plate-height error; one without both spacings, at row >= 1 and          *)
(* column >= 1, raises the row-offset error.                               *)
C28_MissingFieldOrder ==
    call.op = "get_cartesian_vector_to_top_of_well"
    => IF IsNone(defn.plate_height)
       THEN ret = Raise("CartesianVectorRequirePlateHeightError")
       ELSE IF IsNone(defn.center_of_a1)
       THEN ret = Raise("WellCoordinatesRequireA1CenterError")
       ELSE IF call.row_idx > 0 /\ IsNone(defn.row_center_to_center_spacing)
       THEN ret = Raise("WellCoordinatesRequireRowOffsetError")
       ELSE IF call.col_idx > 0 /\ IsNone(defn.column_center_to_center_spacing)
       THEN ret = Raise("WellCoordinatesRequireColumnOffsetError")
       ELSE Returned(ret)

(* both spacings missing, at row 1 and column 1 *)
C28_Witness ==
    /\ call.op = "get_cartesian_vector_to_top_of_well"
    /\ call.row_idx = 1
    /\ call.col_idx = 1
    /\ ~IsNone(defn.plate_height)
    /\ ~IsNone(defn.center_of_a1)
    /\ IsNone(defn.row_center_to_center_spacing)
    /\ IsNone(defn.column_center_to_center_spacing)
    /\ ret = Raise("WellCoordinatesRequireRowOffsetError")

(* the attributes that describe the plate, its identity left out *)
GeometryAttributes == Attributes \ {"uuid", "name"}

(* C29: rotation is an involution on the geometry.  For every definition   *)
(* d, the portrait of the portrait of d has the row_count, column_count,   *)
(* center_of_a1, plate_height, row spacing, column spacing and             *)
(* distance_to_liquid of d, unset fields included.                         *)
C29_RotationInvolution ==
    call.op = "create_portrait_definition"
    => LET twice == create_portrait_definition(portrait).created
       IN  \A a \in GeometryAttributes : twice[a] = defn[a]

(* the trough, rotated and rotated again: its center is back at (14.3,     *)
(* 11.2) and its column_count is unset again                               *)
C29_Witness ==
    /\ call.op = "create_portrait_definition"
    /\ defn \in TroughDefinitions
    /\ portrait.center_of_a1 = PyTuple(<<112, 143>>)
    /\ IsNone(portrait.row_count)
    /\ create_portrait_definition(portrait).created.center_of_a1
           = PyTuple(<<143, 112>>)
    /\ IsNone(create_portrait_definition(portrait).created.column_count)

=============================================================================
